---- MODULE Spec2Model ----
(***************************************************************************)
(* Gamification Demo API (src/main.py): a FastAPI service over a fixed     *)
(* in-memory dataset, plus the /test diagnostic that probes an optional    *)
(* `database` module and two environment variables.                        *)
(*                                                                         *)
(* Conventions of the translation:                                         *)
(*  - the module globals _DEMO_USERS, _DEMO_BADGES, _DEMO_LEADERBOARD and  *)
(*    _DEMO_USER_DETAILS are state variables (Python lists and dicts are   *)
(*    mutable); a handler is one action;                                   *)
(*  - the outcome of a handler is Return(value) or Raise(exception);       *)
(*  - Python's None is the record None, and a str that shares a position   *)
(*    with None is wrapped as Str(s);                                      *)
(*  - the emoji that open the status strings of /test are written in       *)
(*    ASCII: "[OK] " for the check mark, "[X] " for the cross and "[!] "   *)
(*    for the warning sign; the text after them is the source's.           *)
(***************************************************************************)
EXTENDS Integers, Sequences, FiniteSets, TLC

VARIABLES
    _DEMO_USERS,        \* main.py:51  list of DemoUser
    _DEMO_BADGES,       \* main.py:58  list of DemoBadge
    _DEMO_LEADERBOARD,  \* main.py:64  list of DemoLeaderboardEntry
    _DEMO_USER_DETAILS, \* main.py:71  dict user id -> DemoUserSummary
    environ,            \* os.environ restricted to DATABASE_URL, DATABASE_NAME
    request,            \* the request being answered (handler and its input)
    response,           \* the outcome of its handler
    n_award,            \* number of award_points calls answered so far
    diag_first          \* history: what the first /test call of the run returned
                        \* (its connection_status, database_url, database_name), or None

dataset == <<_DEMO_USERS, _DEMO_BADGES, _DEMO_LEADERBOARD, _DEMO_USER_DETAILS>>
vars == <<_DEMO_USERS, _DEMO_BADGES, _DEMO_LEADERBOARD, _DEMO_USER_DETAILS,
          environ, request, response, n_award, diag_first>>

(***************************************************************************)
(* Bounds of the model.                                                    *)
(***************************************************************************)
MaxAwards == 2      \* award_points calls in one behaviour
MaxNames == 12      \* longest sequence list_collection_names() returns
MaxMsgLen == 53     \* longest exception message

(***************************************************************************)
(* Python values.                                                          *)
(***************************************************************************)
None == [type |-> "NoneType"]
Str(s) == [type |-> "builtins.str", value |-> s]

\* a list
List(items) == [type |-> "builtins.list", items |-> items]

\* truth value of an Optional[str]: None and "" are falsy
bool(v) == IF v = None THEN FALSE ELSE v.value # ""

\* s[:n] for n >= 0
Slice(s, n) == SubSeq(s, 1, IF Len(s) < n THEN Len(s) ELSE n)

Return(v) == [kind |-> "return", value |-> v]
Raise(e) == [kind |-> "raise", exc |-> e]

\* dict.get(key): the value, or None
dict_get(d, key) == IF key \in DOMAIN d THEN d[key] ELSE None

(***************************************************************************)
(* The demo dataset, main.py:22-111.                                       *)
(***************************************************************************)
DemoUser(id, name, avatar, title) ==
    [id |-> id, name |-> name, avatar |-> avatar, title |-> title]

DemoBadge(id, name, description, icon, color) ==
    [id |-> id, name |-> name, description |-> description, icon |-> icon,
     color |-> color]

\* Field(ge=0), Field(ge=1), Field(ge=1): the construction is refused with a
\* ValidationError naming the fields out of range, in field order
DemoLeaderboardEntry(user, points, level, rank) ==
    LET refused == SelectSeq(<<"points", "level", "rank">>,
                       LAMBDA f : \/ f = "points" /\ ~(points >= 0)
                                  \/ f = "level" /\ ~(level >= 1)
                                  \/ f = "rank" /\ ~(rank >= 1))
    IN  IF refused = << >>
        THEN [user |-> user, points |-> points, level |-> level, rank |-> rank]
        ELSE [kind |-> "raise", exc |-> [cls |-> "ValidationError", fields |-> refused]]

DemoUserSummary(user, points, level, streak_days, badges, recent_actions) ==
    [user |-> user, points |-> points, level |-> level,
     streak_days |-> streak_days, badges |-> badges,
     recent_actions |-> recent_actions]

InitUsers ==
    << DemoUser("u_001", "Alex Morgan", None, "Sales Captain"),
       DemoUser("u_002", "Jamie Lee", None, "Ops Strategist"),
       DemoUser("u_003", "Riley Chen", None, "Product Ace"),
       DemoUser("u_004", "Jordan Patel", None, "CX Pro") >>

InitBadges ==
    << DemoBadge("b_hero", "Hero", "Top performer of the week", "Trophy", "#F59E0B"),
       DemoBadge("b_streak", "Streak", "7-day activity streak", "Flame", "#EF4444"),
       DemoBadge("b_helper", "Mentor", "Helped 5 teammates", "Handshake", "#10B981") >>

InitLeaderboard ==
    << DemoLeaderboardEntry(InitUsers[1], 18250, 12, 1),
       DemoLeaderboardEntry(InitUsers[2], 16940, 11, 2),
       DemoLeaderboardEntry(InitUsers[3], 15100, 10, 3),
       DemoLeaderboardEntry(InitUsers[4], 13320, 9, 4) >>

InitUserDetails ==
    [k \in {"u_001", "u_002", "u_003", "u_004"} |->
        CASE k = "u_001" ->
               DemoUserSummary(InitUsers[1], 18250, 12, 8,
                   <<InitBadges[1], InitBadges[2]>>,
                   << "Closed enterprise deal (+2,000)",
                      "Completed onboarding quest (+300)",
                      "Shared playbook with team (+100)" >>)
          [] k = "u_002" ->
               DemoUserSummary(InitUsers[2], 16940, 11, 6,
                   <<InitBadges[2]>>,
                   << "Optimized ops workflow (+500)", "Daily check-in (+20)" >>)
          [] k = "u_003" ->
               DemoUserSummary(InitUsers[3], 15100, 10, 4,
                   << >>,
                   << "Launched feature beta (+1,200)" >>)
          [] k = "u_004" ->
               DemoUserSummary(InitUsers[4], 13320, 9, 2,
                   <<InitBadges[3]>>,
                   << "Resolved 20+ support tickets (+800)" >>)]

(***************************************************************************)
(* Lookup handlers, main.py:129-146, as functions of the globals.          *)
(***************************************************************************)
\* variant: the entries sorted by ascending points before they are returned
get_leaderboard_ascending(leaderboard) ==
    Return([i \in 1..Len(leaderboard) |-> leaderboard[Len(leaderboard) + 1 - i]])

get_leaderboard(leaderboard) == Return(leaderboard)

get_badges(badges) == Return(badges)

list_users(users) == Return(users)

HTTPException(status_code, detail) ==
    [cls |-> "HTTPException", status_code |-> status_code, detail |-> detail]

\* variant: the test of line 144 inverted
get_user_summary_inverted(details, user_id) ==
    LET summary == dict_get(details, user_id) IN
    IF summary # None
    THEN Raise(HTTPException(404, "User not found in demo dataset"))
    ELSE Return(summary)

\* variant: an unknown identifier answered with the first user's summary
get_user_summary_fallback(details, user_id) ==
    LET summary == dict_get(details, user_id) IN
    IF summary = None
    THEN Return(details["u_001"])
    ELSE Return(summary)

get_user_summary(details, user_id) ==
    LET summary == dict_get(details, user_id) IN
    IF summary = None
    THEN Raise(HTTPException(404, "User not found in demo dataset"))
    ELSE Return(summary)

(***************************************************************************)
(* award_points, main.py:150-159.  DemoAction is {action: str, points:     *)
(* int}; the handler ignores its argument.                                 *)
(***************************************************************************)
DemoAction(action, points) == [action |-> action, points |-> points]

award_points(body) ==
    Return([mode |-> "demo", message |-> "Read-only demo: no data was changed."])

(***************************************************************************)
(* Python objects the optional database module hands to test_database.     *)
(* An object is a record with its exact type, module-qualified, and        *)
(*   value    for a str: its text;                                         *)
(*   items    for another built-in sequence (list, tuple, bytes, bytearray,*)
(*            range): its elements;                                        *)
(*   getitem  for any other object: the outcome of the subscript the       *)
(*            source applies to it (value[:10] on line 186, value[:50] on  *)
(*            lines 189 and 195), which its type, metaclass or             *)
(*            __class_getitem__ decides: Return(object) or Raise(exc);     *)
(*   format   for any object but a str that is interpolated in an          *)
(*            f-string: the outcome of format(value, ""), Return(Str(text))*)
(*            or Raise(exc).                                               *)
(* An exception is the method resolution order of its class                *)
(* (type(e).__mro__ without object, the class itself first) and the        *)
(* outcome of str(e): Return(object) or Raise(exc).  A class is written as *)
(* its MRO.  The classes main.py names or raises through the interpreter:  *)
(***************************************************************************)
Exception == <<"builtins.Exception", "builtins.BaseException">>
ImportError == <<"builtins.ImportError">> \o Exception
AttributeError == <<"builtins.AttributeError">> \o Exception
TypeError == <<"builtins.TypeError">> \o Exception

\* an exception of class cls on which str() has the outcome s
ExcStr(cls, s) == [mro |-> cls, str |-> s]

\* cls(msg) for a class that keeps Exception's __str__
Exc(cls, msg) == ExcStr(cls, Return(Str(msg)))

\* str(e): type(e).__str__ runs, and may raise
str(e) == e.str

\* isinstance(e, cls), the test of an `except cls` clause: cls is in the MRO
\* of e's class
isinstance(e, cls) == \E i \in 1..Len(e.mro) : e.mro[i] = cls[1]

\* getattr(obj, attr, default): only AttributeError is turned into the default
getattr(obj, attr, default) ==
    LET got == obj[attr] IN
    IF got.kind = "raise" /\ isinstance(got.exc, AttributeError)
    THEN Return(default)
    ELSE got

\* the built-in sequence types, whose value[:n] is the first n elements in a
\* sequence of the same type
Sliceable ==
    {"builtins.list", "builtins.tuple", "builtins.str", "builtins.bytes",
     "builtins.bytearray", "builtins.range"}

\* variant: the slice bound dropped
getitem_slice_unbounded(value, n) ==
    IF value.type = "builtins.str"
    THEN Return(value)
    ELSE IF value.type \in Sliceable
    THEN Return(value)
    ELSE value.getitem

\* value[:n], main.py:186, 189, 195
getitem_slice(value, n) ==
    IF value.type = "builtins.str"
    THEN Return(Str(Slice(value.value, n)))
    ELSE IF value.type \in Sliceable
    THEN Return([value EXCEPT !.items = Slice(@, n)])
    ELSE value.getitem

\* f"{value}": a str is interpolated as it is, any other object through
\* format(value, "")
format(value) ==
    IF value.type = "builtins.str" THEN Return(value) ELSE value.format

\* os.getenv(key)
os_getenv(env, key) == IF key \in DOMAIN env THEN Str(env[key]) ELSE None

(***************************************************************************)
(* test_database, main.py:165-200.  `collab` is the behaviour of the       *)
(* optional database module during this call:                              *)
(*   collab.import                the outcome of `from database import db`:*)
(*                                Raise(e), Return(None) or Return(db)     *)
(*   db.name                      the outcome of looking up db.name        *)
(*   db.list_collection_names     the outcome of db.list_collection_names()*)
(* A frame is the response dict so far and the exception in flight.        *)
(***************************************************************************)
ERR_SLICE == 50
COLLECTIONS_SLICE == 10

Frame(r, e) == [response |-> r, exc |-> e]

response_init ==
    [backend |-> "[OK] Running",
     database |-> "[X] Not Available",
     database_url |-> None,
     database_name |-> None,
     connection_status |-> "Not Connected",
     collections |-> List(<< >>)]

\* f"{prefix}{str(e)[:50]}", main.py:189 and 195: str(e), the subscript and
\* the interpolation are evaluated in this order and each may raise
error_text(prefix, e) ==
    LET s == str(e) IN
    IF s.kind = "raise" THEN s
    ELSE LET head == getitem_slice(s.value, ERR_SLICE) IN
         IF head.kind = "raise" THEN head
         ELSE LET text == format(head.value) IN
              IF text.kind = "raise" THEN text
              ELSE Return(prefix \o text.value.value)

\* variant: a failed enumeration also resets connection_status
inner_except_disconnects(r, e) ==
    IF isinstance(e, Exception)
    THEN LET text == error_text("[!]  Connected but Error: ", e) IN
         IF text.kind = "raise"
         THEN [response |-> r, exc |-> text.exc]
         ELSE [response |-> [r EXCEPT !.database = text.value,
                                      !.connection_status = "Not Connected"],
               exc |-> None]
    ELSE [response |-> r, exc |-> e]

\* main.py:188-189; an exception raised while the clause runs leaves it for
\* the except clauses of the outer try
inner_except(r, e) ==
    IF isinstance(e, Exception)
    THEN LET text == error_text("[!]  Connected but Error: ", e) IN
         IF text.kind = "raise"
         THEN Frame(r, text.exc)
         ELSE Frame([r EXCEPT !.database = text.value], None)
    ELSE Frame(r, e)

\* main.py:184-189
inner_try(r, db) ==
    LET collections == db["list_collection_names"] IN
    IF collections.kind = "raise"
    THEN inner_except(r, collections.exc)
    ELSE LET sliced == getitem_slice(collections.value, COLLECTIONS_SLICE) IN
         IF sliced.kind = "raise"
         THEN inner_except(r, sliced.exc)
         ELSE Frame([r EXCEPT !.collections = sliced.value,
                              !.database = "[OK] Connected & Working"], None)

\* main.py:178-191
outer_try(r, collab) ==
    LET imported == collab.import IN
    IF imported.kind = "raise"
    THEN Frame(r, imported.exc)
    ELSE LET db == imported.value IN
         IF db # None
         THEN LET r1 == [r EXCEPT !.database = "[OK] Available",
                                  !.database_url = Str("[OK] Configured")]
                  name == getattr(db, "name", Str("[OK] Connected"))
              IN  IF name.kind = "raise"
                  THEN Frame(r1, name.exc)
                  ELSE inner_try([r1 EXCEPT !.database_name = name.value,
                                            !.connection_status = "Connected"], db)
         ELSE Frame([r EXCEPT !.database = "[!]  Available but not initialized"], None)

\* main.py:192-195; an exception raised while the second clause runs leaves
\* test_database
outer_except(f) ==
    IF f.exc = None
    THEN f
    ELSE IF isinstance(f.exc, ImportError)
    THEN Frame([f.response EXCEPT !.database = "[X] Database module not found"], None)
    ELSE IF isinstance(f.exc, Exception)
    THEN LET text == error_text("[X] Error: ", f.exc) IN
         IF text.kind = "raise"
         THEN Frame(f.response, text.exc)
         ELSE Frame([f.response EXCEPT !.database = text.value], None)
    ELSE f

\* variant: the two fields filled from the environment only when still None
env_indicators_if_unset(r, env) ==
    [r EXCEPT
       !.database_url = IF r.database_url # None THEN r.database_url
                        ELSE IF bool(os_getenv(env, "DATABASE_URL"))
                        THEN Str("[OK] Set") ELSE Str("[X] Not Set"),
       !.database_name = IF r.database_name # None THEN r.database_name
                         ELSE IF bool(os_getenv(env, "DATABASE_NAME"))
                         THEN Str("[OK] Set") ELSE Str("[X] Not Set")]

\* main.py:197-198
env_indicators(r, env) ==
    [r EXCEPT
       !.database_url = IF bool(os_getenv(env, "DATABASE_URL"))
                        THEN Str("[OK] Set") ELSE Str("[X] Not Set"),
       !.database_name = IF bool(os_getenv(env, "DATABASE_NAME"))
                         THEN Str("[OK] Set") ELSE Str("[X] Not Set")]

test_database(env, collab) ==
    LET f == outer_except(outer_try(response_init, collab)) IN
    IF f.exc # None
    THEN Raise(f.exc)
    ELSE Return(env_indicators(f.response, env))

(***************************************************************************)
(* read_root and health, main.py:117-127.                                  *)
(***************************************************************************)
read_root == Return([message |-> "Gamification Demo API running"])

health == Return([status |-> "ok", mode |-> "demo", version |-> "1.0"])

(***************************************************************************)
(* Inputs of the requests.                                                 *)
(***************************************************************************)
RECURSIVE Text(_)
\* a text of n characters, its i-th character determined by i
Text(n) ==
    IF n = 0 THEN ""
    ELSE Text(n - 1) \o SubSeq("abcdefghij", ((n - 1) % 10) + 1, ((n - 1) % 10) + 1)

MsgLens == {0, 5, ERR_SLICE, ERR_SLICE + 1, MaxMsgLen}

Messages == {Text(n) : n \in MsgLens}

CollName(i) == "coll_" \o ToString(i)


\* n collection names, in ascending or in descending order of their number
NameList(n, descending) ==
    List([i \in 1..n |-> CollName(IF descending THEN n + 1 - i ELSE i)])

NameLens == {0, 1, COLLECTIONS_SLICE - 1, COLLECTIONS_SLICE, COLLECTIONS_SLICE + 1, MaxNames}

NameLists == {NameList(n, d) : n \in NameLens, d \in BOOLEAN}

\* classes the collaborator raises, besides those above
ModuleNotFoundError == <<"builtins.ModuleNotFoundError">> \o ImportError
ZipImportError == <<"zipimport.ZipImportError">> \o ImportError
KeyError == <<"builtins.KeyError", "builtins.LookupError">> \o Exception
RuntimeError == <<"builtins.RuntimeError">> \o Exception
ValueError == <<"builtins.ValueError">> \o Exception
ConnectionError == <<"builtins.ConnectionError", "builtins.OSError">> \o Exception
FrozenInstanceError == <<"dataclasses.FrozenInstanceError">> \o AttributeError
FuturesCancelledError ==
    <<"concurrent.futures._base.CancelledError", "concurrent.futures._base.Error">>
    \o Exception
SystemExit == <<"builtins.SystemExit", "builtins.BaseException">>
KeyboardInterrupt == <<"builtins.KeyboardInterrupt", "builtins.BaseException">>
CancelledError == <<"asyncio.exceptions.CancelledError", "builtins.BaseException">>

\* exceptions that are not instances of Exception
BaseExceptions ==
    {Exc(SystemExit, "DATABASE_URL is required"),
     Exc(KeyboardInterrupt, ""),
     Exc(CancelledError, "")}

\* a str subclass whose subscript raises
TextUnsliceable ==
    [type |-> "database.Text",
     getitem |-> Raise(Exc(TypeError, "Text indices must be integers"))]

\* a str subclass whose slice is interpolated through __format__
TextFormatted(outcome) ==
    [type |-> "database.Text",
     getitem |-> Return([type |-> "database.Text", format |-> outcome])]

\* exceptions of a class below Exception whose __str__ is the class's own
DatabaseError == <<"database.DatabaseError">> \o Exception

\* __str__ raises
Unprintable ==
    {ExcStr(DatabaseError, Raise(Exc(ValueError, "__str__ failed"))),
     ExcStr(DatabaseError, Raise(Exc(ImportError, "No module named 'bson'"))),
     ExcStr(DatabaseError, Raise(Exc(KeyboardInterrupt, ""))),
     ExcStr(DatabaseError,
            Raise(ExcStr(DatabaseError,
                         Raise(Exc(TypeError, "__str__ returned non-string (type int)")))))}

\* __str__ returns an instance of a str subclass
Retexted ==
    {ExcStr(DatabaseError, Return(TextUnsliceable)),
     ExcStr(DatabaseError, Return(TextFormatted(Return(Str("<text>"))))),
     ExcStr(DatabaseError, Return(TextFormatted(Raise(Exc(ValueError, "bad format")))))}

\* outcomes of `from database import db` that raise
ImportRaises ==
    {Raise(Exc(ModuleNotFoundError, "No module named 'database'")),
     Raise(Exc(ImportError, "cannot import name 'db' from 'database'")),
     Raise(Exc(ZipImportError, "can't decompress data; zlib not available")),
     Raise(Exc(KeyError, "'DATABASE_URL'"))}
    \cup {Raise(Exc(RuntimeError, m)) : m \in Messages}
    \cup {Raise(e) : e \in BaseExceptions \cup Unprintable \cup Retexted}

\* outcomes of looking up db.name that getattr answers with a value
NameReads ==
    {Return(Str("demo_db")),
     Raise(Exc(AttributeError, "'Database' object has no attribute 'name'")),
     Raise(Exc(FrozenInstanceError, "cannot assign to field 'name'"))}

\* ... and that leave getattr as an exception
NameRaises ==
    {Raise(Exc(ImportError, "No module named 'dns'")),
     Raise(Exc(ConnectionError, "connection refused")),
     Raise(Exc(KeyboardInterrupt, "")),
     Raise(ExcStr(DatabaseError, Raise(Exc(ValueError, "__str__ failed"))))}
    \cup {Raise(Exc(RuntimeError, m)) : m \in Messages}

NameOutcomes == NameReads \cup NameRaises

\* objects list_collection_names() returns that are not built-in sequences,
\* each with the outcome of value[:10]
Unsequenced ==
    {[type |-> "builtins.dict",
      getitem |-> Raise(Exc(TypeError, "unhashable type: 'slice'"))],
     [type |-> "builtins.set",
      getitem |-> Raise(Exc(TypeError, "'set' object is not subscriptable"))],
     [type |-> "collections.deque",
      getitem |-> Raise(Exc(TypeError, "sequence index must be integer, not 'slice'"))],
     [type |-> "collections.UserList",
      getitem |-> Return([type |-> "collections.UserList",
                          items |-> Slice(NameList(MaxNames, TRUE).items,
                                          COLLECTIONS_SLICE)])],
     \* a memoryview without dimensions
     [type |-> "builtins.memoryview",
      getitem |-> Raise(Exc(TypeError, "invalid indexing of 0-dim memory"))],
     \* the class list: list[:10] is a generic alias
     [type |-> "builtins.type",
      getitem |-> Return([type |-> "types.GenericAlias",
                          repr |-> "list[slice(None, 10, None)]"])],
     \* the class int
     [type |-> "builtins.type",
      getitem |-> Raise(Exc(TypeError, "type 'int' is not subscriptable"))],
     \* a result set whose __getitem__ ignores the bound of a slice
     [type |-> "database.Names", getitem |-> Return(NameList(MaxNames, FALSE))],
     \* ... whose __getitem__ raises
     [type |-> "database.Names",
      getitem |-> Raise(ExcStr(DatabaseError, Raise(Exc(ValueError, "__str__ failed"))))],
     [type |-> "database.Names", getitem |-> Raise(Exc(KeyboardInterrupt, ""))]}

\* outcomes of db.list_collection_names()
ListOutcomes ==
    {Return(l) : l \in NameLists}
    \cup {Return([NameList(MaxNames, FALSE) EXCEPT !.type = "builtins.tuple"]),
          Return(Str("collection_names"))}
    \cup {Return(v) : v \in Unsequenced}
    \cup {Raise(Exc(ValueError, "bad value")),
          Raise(Exc(FuturesCancelledError, "pool shut down")),
          Raise(Exc(AttributeError,
                    "'Database' object has no attribute 'list_collection_names'")),
          Raise(Exc(ImportError, "No module named 'dns'"))}
    \cup {Raise(Exc(RuntimeError, m)) : m \in Messages}
    \cup {Raise(e) : e \in BaseExceptions \cup Unprintable \cup Retexted}

\* outcomes of db.list_collection_names() paired with a name lookup that raises
ListSamples ==
    {Return(NameList(MaxNames, TRUE)),
     Return(NameList(0, FALSE)),
     Raise(Exc(RuntimeError, Text(MaxMsgLen))),
     Raise(Exc(KeyboardInterrupt, ""))}

\* a handle: every enumeration under a name that is read, and the sampled
\* enumerations under a name lookup that raises
Handles ==
    [name : NameReads, list_collection_names : ListOutcomes]
    \cup [name : NameRaises, list_collection_names : ListSamples]

Collaborators ==
    {[import |-> o] : o \in ImportRaises \cup {Return(None)}}
    \cup {[import |-> Return(db)] : db \in Handles}

UserIds == {"u_001", "u_002", "u_003", "u_004", "u_999", "", "b_hero"}

DemoActions == {DemoAction(a, p) : a \in {"test", ""}, p \in {-50, 0, 50}}

EnvValues == {"", "mongodb://localhost:27017"}

Environs ==
    UNION {[keys -> EnvValues] : keys \in SUBSET {"DATABASE_URL", "DATABASE_NAME"}}

(***************************************************************************)
(* The service: one action per route.                                      *)
(***************************************************************************)
\* variant: the summary of u_004 built around _DEMO_USERS[2]
Init_wrong_user ==
    /\ _DEMO_USERS = InitUsers
    /\ _DEMO_BADGES = InitBadges
    /\ _DEMO_LEADERBOARD = InitLeaderboard
    /\ _DEMO_USER_DETAILS = [InitUserDetails EXCEPT !["u_004"].user = InitUsers[3]]
    /\ environ \in Environs
    /\ request = [op |-> "none"]
    /\ response = None
    /\ n_award = 0
    /\ diag_first = None

Init ==
    /\ _DEMO_USERS = InitUsers
    /\ _DEMO_BADGES = InitBadges
    /\ _DEMO_LEADERBOARD = InitLeaderboard
    /\ _DEMO_USER_DETAILS = InitUserDetails
    /\ environ \in Environs
    /\ request = [op |-> "none"]
    /\ response = None
    /\ n_award = 0
    /\ diag_first = None

GET_root ==
    /\ request' = [op |-> "read_root"]
    /\ response' = read_root
    /\ UNCHANGED <<dataset, environ, n_award, diag_first>>

GET_api_health ==
    /\ request' = [op |-> "health"]
    /\ response' = health
    /\ UNCHANGED <<dataset, environ, n_award, diag_first>>

GET_api_demo_leaderboard ==
    /\ request' = [op |-> "get_leaderboard"]
    /\ response' = get_leaderboard(_DEMO_LEADERBOARD)
    /\ UNCHANGED <<dataset, environ, n_award, diag_first>>

GET_api_demo_badges ==
    /\ request' = [op |-> "get_badges"]
    /\ response' = get_badges(_DEMO_BADGES)
    /\ UNCHANGED <<dataset, environ, n_award, diag_first>>

GET_api_demo_users ==
    /\ request' = [op |-> "list_users"]
    /\ response' = list_users(_DEMO_USERS)
    /\ UNCHANGED <<dataset, environ, n_award, diag_first>>

GET_api_demo_user(user_id) ==
    /\ request' = [op |-> "get_user_summary", user_id |-> user_id]
    /\ response' = get_user_summary(_DEMO_USER_DETAILS, user_id)
    /\ UNCHANGED <<dataset, environ, n_award, diag_first>>

\* variant: the points added to the leader's entry
POST_api_demo_award_applies(body) ==
    /\ n_award < MaxAwards
    /\ request' = [op |-> "award_points", body |-> body]
    /\ response' = award_points(body)
    /\ n_award' = n_award + 1
    /\ _DEMO_LEADERBOARD' =
          [_DEMO_LEADERBOARD EXCEPT ![1].points = @ + body.points]
    /\ UNCHANGED <<_DEMO_USERS, _DEMO_BADGES, _DEMO_USER_DETAILS, environ, diag_first>>

POST_api_demo_award(body) ==
    /\ n_award < MaxAwards
    /\ request' = [op |-> "award_points", body |-> body]
    /\ response' = award_points(body)
    /\ n_award' = n_award + 1
    /\ UNCHANGED <<dataset, environ, diag_first>>

GET_test(collab) ==
    /\ request' = [op |-> "test_database", collab |-> collab]
    /\ response' = test_database(environ, collab)
    /\ diag_first' = IF diag_first = None /\ response'.kind = "return"
                     THEN [connection_status |-> response'.value.connection_status,
                           database_url |-> response'.value.database_url,
                           database_name |-> response'.value.database_name]
                     ELSE diag_first
    /\ UNCHANGED <<dataset, environ, n_award>>

Next ==
    \/ GET_root
    \/ GET_api_health
    \/ GET_api_demo_leaderboard
    \/ GET_api_demo_badges
    \/ GET_api_demo_users
    \/ \E user_id \in UserIds : GET_api_demo_user(user_id)
    \/ \E body \in DemoActions : POST_api_demo_award(body)
    \/ \E collab \in Collaborators : GET_test(collab)

Spec == Init /\ [][Next]_vars

(***************************************************************************)
(* Vocabulary of the properties.                                           *)
(***************************************************************************)
DatasetIntact ==
    /\ list_users(_DEMO_USERS) = Return(InitUsers)
    /\ get_leaderboard(_DEMO_LEADERBOARD) = Return(InitLeaderboard)
    /\ get_badges(_DEMO_BADGES) = Return(InitBadges)
    /\ \A id \in UserIds :
          get_user_summary(_DEMO_USER_DETAILS, id) = get_user_summary(InitUserDetails, id)

Answered(op) == request.op = op

\* the classes an exception is an instance of
Classes(e) == {e.mro[i] : i \in 1..Len(e.mro)}

\* `from database import db` gave a handle that is not None
HandleNonNull(c) == c.import.kind = "return" /\ c.import.value # None

\* reading the handle's name raised (a missing attribute does not: getattr
\* answers its default)
NameRaised(c) ==
    /\ HandleNonNull(c)
    /\ c.import.value.name.kind = "raise"
    /\ "builtins.AttributeError" \notin Classes(c.import.value.name.exc)

\* db.list_collection_names() was called
EnumerationAttempted(c) == HandleNonNull(c) /\ ~NameRaised(c)

\* what enumerating up to 10 collection names of the handle does: the call
\* of list_collection_names(), then the subscript [:10] on what it returned
Enumeration(c) ==
    LET o == c.import.value.list_collection_names IN
    IF o.kind = "raise" THEN o ELSE getitem_slice(o.value, COLLECTIONS_SLICE)

EnumerationSucceeds(c) == HandleNonNull(c) /\ Enumeration(c).kind = "return"

EnumerationFails(c) == HandleNonNull(c) /\ Enumeration(c).kind = "raise"

\* str() of the exception is a str: the error has a message
HasMessage(e) == str(e).kind = "return" /\ str(e).value.type = "builtins.str"

\* the elements of a sequence object
Elements(v) == IF v.type = "builtins.str" THEN v.value ELSE v.items

\* the object has elements
Sized(v) == "items" \in DOMAIN v \/ "value" \in DOMAIN v

Min(a, b) == IF a < b THEN a ELSE b

(***************************************************************************)
(* C1.  After any sequence of requests with any number of award_points     *)
(* calls (any action text, any integer points), every award_points call    *)
(* returns exactly {mode: "demo", message: "Read-only demo: no data was    *)
(* changed."} and list_users, get_leaderboard, get_badges and              *)
(* get_user_summary(id) for every id answer what they answered before the  *)
(* first request.                                                          *)
(***************************************************************************)
C1_AwardChangesNothing ==
    /\ Answered("award_points") =>
          response = [kind |-> "return",
                      value |-> [mode |-> "demo",
                                 message |-> "Read-only demo: no data was changed."]]
    /\ DatasetIntact

C1_Witness ==
    /\ n_award >= 2
    /\ Answered("award_points")
    /\ request.body.points < 0
    /\ response.kind = "return"

(***************************************************************************)
(* C2.  For every user identifier in the result of list_users,             *)
(* get_user_summary(id) succeeds and the summary's embedded user equals    *)
(* the user of that identifier in the result of list_users.                *)
(***************************************************************************)
C2_SummaryEmbedsListedUser ==
    LET listed == list_users(_DEMO_USERS).value IN
    /\ \A i \in 1..Len(listed) :
          LET r == get_user_summary(_DEMO_USER_DETAILS, listed[i].id) IN
          r.kind = "return" /\ r.value.user = listed[i]
    /\ Answered("get_user_summary") =>
          \A i \in 1..Len(listed) :
             listed[i].id = request.user_id =>
                response.kind = "return" /\ response.value.user = listed[i]

C2_Witness ==
    /\ Answered("get_user_summary")
    /\ request.user_id = "u_003"
    /\ response.kind = "return"
    /\ response.value.user.name = "Riley Chen"
    /\ response.value.points = 15100

(***************************************************************************)
(* C3.  For every identifier that is not a key of the user summary index   *)
(* ("u_999", the empty string, a badge id) get_user_summary fails with     *)
(* status 404 and exactly the message "User not found in demo dataset",    *)
(* returns no summary, and leaves the dataset unchanged.                   *)
(***************************************************************************)
C3_UnknownUserIs404 ==
    LET NotFound == [kind |-> "raise",
                     exc |-> [cls |-> "HTTPException", status_code |-> 404,
                              detail |-> "User not found in demo dataset"]] IN
    /\ \A id \in UserIds \ DOMAIN _DEMO_USER_DETAILS :
          get_user_summary(_DEMO_USER_DETAILS, id) = NotFound
    /\ Answered("get_user_summary") /\ request.user_id \notin DOMAIN _DEMO_USER_DETAILS =>
          response = NotFound /\ DatasetIntact

C3_Witness ==
    /\ Answered("get_user_summary")
    /\ request.user_id = "b_hero"
    /\ response.kind = "raise"
    /\ response.exc.status_code = 404

(***************************************************************************)
(* C4.  test_database always returns a status object and never propagates  *)
(* an exception, whatever the database collaborator does: module absent,   *)
(* import raising another exception, handle None, name lookup raising,     *)
(* enumeration raising, enumeration succeeding.                            *)
(***************************************************************************)
C4_TestNeverRaises ==
    Answered("test_database") =>
       /\ response.kind = "return"
       /\ DOMAIN response.value =
             {"backend", "database", "database_url", "database_name",
              "connection_status", "collections"}

(***************************************************************************)
(* C5.  The database field test_database returns: module cannot be         *)
(* located -> "Database module not found"; module located but handle None  *)
(* -> "Available but not initialized"; handle not None and the enumeration *)
(* of collection names succeeds -> "Connected & Working"; handle not None  *)
(* and the enumeration fails -> "Connected but Error: " followed by the    *)
(* first 50 characters at most of the error's message.                     *)
(***************************************************************************)
C5_DatabaseField ==
    Answered("test_database") /\ response.kind = "return" =>
       LET c == request.collab
           d == response.value.database
           prefix == "[!]  Connected but Error: "
       IN  /\ (c.import.kind = "raise" /\ "builtins.ModuleNotFoundError" \in Classes(c.import.exc))
                 => d = "[X] Database module not found"
           /\ (c.import.kind = "return" /\ c.import.value = None)
                 => d = "[!]  Available but not initialized"
           /\ EnumerationSucceeds(c) => d = "[OK] Connected & Working"
           /\ EnumerationFails(c) =>
                 LET e == Enumeration(c).exc IN
                 /\ Len(d) >= Len(prefix)
                 /\ Len(d) <= Len(prefix) + 50
                 /\ SubSeq(d, 1, Len(prefix)) = prefix
                 /\ HasMessage(e) =>
                       LET m == str(e).value.value IN
                       d = prefix \o SubSeq(m, 1, Min(50, Len(m)))

(***************************************************************************)
(* C6.  As claimed: database_url and database_name of every test_database  *)
(* response say "Set" when DATABASE_URL / DATABASE_NAME is set and "Not    *)
(* Set" when it is not, and do not depend on the collaborator.             *)
(***************************************************************************)
C6_AsClaimed ==
    Answered("test_database") /\ response.kind = "return" =>
       /\ response.value.database_url =
             (IF "DATABASE_URL" \in DOMAIN environ
              THEN Str("[OK] Set") ELSE Str("[X] Not Set"))
       /\ response.value.database_name =
             (IF "DATABASE_NAME" \in DOMAIN environ
              THEN Str("[OK] Set") ELSE Str("[X] Not Set"))

(***************************************************************************)
(* C6, amended.  database_url and database_name of every test_database     *)
(* response say "Set" when DATABASE_URL / DATABASE_NAME is set to a        *)
(* non-empty value and "Not Set" when it is unset or empty, and do not     *)
(* depend on the collaborator: two calls under the same environment with   *)
(* different collaborators return the same two fields.                     *)
(***************************************************************************)
C6_EnvIndicators ==
    LET Indicator(k) == IF k \in DOMAIN environ /\ environ[k] # ""
                        THEN Str("[OK] Set") ELSE Str("[X] Not Set")
    IN  /\ \A c \in Collaborators :
              LET r == test_database(environ, c) IN
              r.kind = "return" =>
                 /\ r.value.database_url = Indicator("DATABASE_URL")
                 /\ r.value.database_name = Indicator("DATABASE_NAME")
        /\ Answered("test_database") /\ response.kind = "return" =>
              /\ response.value.database_url = Indicator("DATABASE_URL")
              /\ response.value.database_name = Indicator("DATABASE_NAME")
              /\ diag_first # None
              /\ response.value.database_url = diag_first.database_url
              /\ response.value.database_name = diag_first.database_name

C6_Witness ==
    /\ Answered("test_database")
    /\ response.kind = "return"
    /\ diag_first # None
    /\ diag_first.connection_status = "Not Connected"
    /\ response.value.connection_status = "Connected"
    /\ "DATABASE_URL" \in DOMAIN environ
    /\ environ["DATABASE_URL"] = ""
    /\ "DATABASE_NAME" \in DOMAIN environ
    /\ environ["DATABASE_NAME"] # ""
    /\ response.value.database_url = Str("[X] Not Set")
    /\ response.value.database_name = Str("[OK] Set")

(***************************************************************************)
(* C7.  get_leaderboard always returns exactly 4 entries, rank 1,2,3,4 in  *)
(* that order and points strictly decreasing from one entry to the next    *)
(* (18250 first, 13320 last); the order is the construction order.         *)
(***************************************************************************)
C7_LeaderboardOrdered ==
    LET Ordered(r) ==
           /\ r.kind = "return"
           /\ Len(r.value) = 4
           /\ \A i \in 1..4 : r.value[i].rank = i
           /\ \A i \in 1..3 : r.value[i].points > r.value[i + 1].points
           /\ r.value[1].points = 18250
           /\ r.value[4].points = 13320
           /\ r.value = _DEMO_LEADERBOARD
    IN  /\ Ordered(get_leaderboard(_DEMO_LEADERBOARD))
        /\ Answered("get_leaderboard") => Ordered(response)

C7_Witness ==
    /\ Answered("get_leaderboard")
    /\ n_award >= 1
    /\ response.kind = "return"
    /\ response.value[2].user.id = "u_002"
    /\ response.value[2].points = 16940

(***************************************************************************)
(* C8.  In every reachable state every key of the user summary index is    *)
(* the identifier of a user of the user collection, and the summary under  *)
(* a key embeds the user whose identifier is that key.                     *)
(***************************************************************************)
C8_IndexRefersToUsers ==
    \A k \in DOMAIN _DEMO_USER_DETAILS :
       /\ \E i \in 1..Len(_DEMO_USERS) : _DEMO_USERS[i].id = k
       /\ \A i \in 1..Len(_DEMO_USERS) :
             _DEMO_USERS[i].id = k => _DEMO_USER_DETAILS[k].user = _DEMO_USERS[i]

C8_Witness ==
    /\ n_award >= 1
    /\ Answered("test_database")
    /\ Cardinality(DOMAIN _DEMO_USER_DETAILS) = 4
    /\ "u_004" \in DOMAIN _DEMO_USER_DETAILS
    /\ _DEMO_USER_DETAILS["u_004"].user = _DEMO_USERS[4]

(***************************************************************************)
(* C9.  As claimed: the collections field test_database returns never has  *)
(* more than 10 elements: when the handle is not None and the enumeration  *)
(* succeeds it is the first min(10, n) names enumerated, in their order;   *)
(* in every other case (module absent, handle None, the enumeration or any *)
(* other step failing) it is the empty sequence.                           *)
(***************************************************************************)
C9_AsClaimed ==
    Answered("test_database") /\ response.kind = "return" =>
       LET c == request.collab
           collections == response.value.collections
       IN  /\ Sized(collections)
           /\ Len(Elements(collections)) <= 10
           /\ IF EnumerationAttempted(c) /\ EnumerationSucceeds(c)
              THEN LET v == c.import.value.list_collection_names.value IN
                   Sized(v) =>
                      Elements(collections) =
                         SubSeq(Elements(v), 1, Min(10, Len(Elements(v))))
              ELSE collections = List(<< >>)

(***************************************************************************)
(* C9, amended.  When the handle is not None, reading its name does not    *)
(* raise and list_collection_names() returns a built-in sequence (list,    *)
(* tuple, str, bytes, bytearray, range) of n elements, the collections     *)
(* field test_database returns is the sequence of the same type of its     *)
(* first min(10, n) elements in their order, so never more than 10; when   *)
(* list_collection_names() returns any other object, the field is whatever *)
(* that object's subscript [:10] returns, which is not bounded; in every   *)
(* other case (module absent, handle None, reading the name, the call or   *)
(* the subscript raising) it is the empty list.                            *)
(***************************************************************************)
C9_CollectionsOfSequence ==
    Answered("test_database") /\ response.kind = "return" =>
       LET c == request.collab
           collections == response.value.collections
       IN  IF EnumerationAttempted(c) /\ EnumerationSucceeds(c)
           THEN LET v == c.import.value.list_collection_names.value IN
                IF v.type \in Sliceable
                THEN /\ collections.type = v.type
                     /\ Len(Elements(collections)) = Min(10, Len(Elements(v)))
                     /\ Len(Elements(collections)) <= 10
                     /\ Elements(collections) =
                           SubSeq(Elements(v), 1, Len(Elements(collections)))
                ELSE collections = v.getitem.value
           ELSE collections = List(<< >>)

C9_Witness ==
    /\ Answered("test_database")
    /\ response.kind = "return"
    /\ EnumerationAttempted(request.collab)
    /\ request.collab.import.value.list_collection_names.kind = "return"
    /\ request.collab.import.value.list_collection_names.value.type = "builtins.list"
    /\ Len(request.collab.import.value.list_collection_names.value.items) > 10
    /\ request.collab.import.value.list_collection_names.value.items[1] # "coll_1"
    /\ Len(response.value.collections.items) = 10

(***************************************************************************)
(* C10.  connection_status of test_database is "Connected" exactly when    *)
(* the module was located, its handle is not None and reading the handle's *)
(* name did not raise; it stays "Connected" when the enumeration that      *)
(* follows fails; in every other case it is "Not Connected".               *)
(***************************************************************************)
C10_ConnectionStatus ==
    Answered("test_database") /\ response.kind = "return" =>
       response.value.connection_status =
          (IF HandleNonNull(request.collab) /\ ~NameRaised(request.collab)
           THEN "Connected" ELSE "Not Connected")

C10_Witness ==
    /\ Answered("test_database")
    /\ response.kind = "return"
    /\ EnumerationAttempted(request.collab)
    /\ EnumerationFails(request.collab)
    /\ response.value.connection_status = "Connected"
    /\ SubSeq(response.value.database, 1, 24) = "[!]  Connected but Error"

====
